---- MODULE Spec2Model ----
(***************************************************************************)
(* Model of src/pages/index.jsx (SolTransferApp): the React component      *)
(* state, its handlers, and the asynchronous continuations of the wallet   *)
(* agent (window.solana) and of the ledger client (connection).            *)
(*                                                                         *)
(* Text is modelled as a sequence of fragments: "" is << >>, a + b is      *)
(* a \o b, and s.includes(p) holds when p is one of the fragments of s.    *)
(* Input strings (address, amount) are sequences of one-character strings. *)
(***************************************************************************)
EXTENDS Integers, Sequences, FiniteSets, TLC

\* ------------------------------------------------------------------ bounds
\* number of sendTransaction invocations that may be suspended at once
MaxTasks == 2
\* number of explicit connect requests that may be outstanding at once
MaxConnects == 2

\* number of zeros that may follow the decimal point of an amount below 1
MaxZeros == 10

\* ------------------------------------------------------- library constants
PUBLIC_KEY_LENGTH == 32
LAMPORTS_EXP == 9

NULL == "null"

\* ------------------------------------------------------------ pure helpers
Digits == {"0", "1", "2", "3", "4", "5", "6", "7", "8", "9"}

DigitVal(c) ==
  CASE c = "0" -> 0 [] c = "1" -> 1 [] c = "2" -> 2 [] c = "3" -> 3
    [] c = "4" -> 4 [] c = "5" -> 5 [] c = "6" -> 6 [] c = "7" -> 7
    [] c = "8" -> 8 [] c = "9" -> 9

RECURSIVE Pow(_, _)
Pow(b, n) == IF n = 0 THEN 1 ELSE b * Pow(b, n - 1)

RECURSIVE Ones(_)
Ones(n) == IF n = 0 THEN << >> ELSE <<"1">> \o Ones(n - 1)

\* base58 alphabet of the PublicKey constructor (bs58): the characters that
\* occur in the modelled inputs, with their digit values; 0 O I l - and the
\* space are not in the alphabet.
B58Chars == {"1", "2", "3", "a", "d", "e", "n", "o", "r", "s", "t", "z"}

B58Val(c) ==
  CASE c = "1" -> 0 [] c = "2" -> 1 [] c = "3" -> 2
    [] c = "a" -> 33 [] c = "d" -> 36 [] c = "e" -> 37 [] c = "n" -> 45
    [] c = "o" -> 46 [] c = "r" -> 49 [] c = "s" -> 50 [] c = "t" -> 51
    [] c = "z" -> 57

\* number of leading "1" characters of s from position i (each decodes to one
\* zero byte)
RECURSIVE LeadingOnes(_, _)
LeadingOnes(s, i) ==
  IF i <= Len(s) /\ s[i] = "1" THEN 1 + LeadingOnes(s, i + 1) ELSE 0

\* value of the base58 digits s[i..Len(s)], acc the value read so far
RECURSIVE B58Num(_, _, _)
B58Num(s, i, acc) ==
  IF i > Len(s) THEN acc ELSE B58Num(s, i + 1, acc * 58 + B58Val(s[i]))

\* number of base-256 digits of n (0 for n = 0)
RECURSIVE ByteLen(_)
ByteLen(n) == IF n = 0 THEN 0 ELSE 1 + ByteLen(n \div 256)

\* length of bs58.decode(s), or -1 when s has a character outside the alphabet
B58DecodedLen(s) ==
  IF \E i \in 1..Len(s) : s[i] \notin B58Chars
    THEN -1
    ELSE LET z == LeadingOnes(s, 1)
         IN  z + ByteLen(B58Num(s, z + 1, 0))

\* new PublicKey(address) does not throw
PublicKeyOK(address) == B58DecodedLen(address) = PUBLIC_KEY_LENGTH

\* length of the run of decimal digits of s that starts at position i
RECURSIVE DigitRun(_, _)
DigitRun(s, i) ==
  IF i <= Len(s) /\ s[i] \in Digits THEN 1 + DigitRun(s, i + 1) ELSE 0

\* value of the decimal digits s[i..j], acc the value read so far
RECURSIVE DecNum(_, _, _, _)
DecNum(s, i, j, acc) ==
  IF i > j THEN acc ELSE DecNum(s, i + 1, j, acc * 10 + DigitVal(s[i]))

NaN == [nan |-> TRUE, neg |-> FALSE, num |-> 0, scale |-> 0]

\* parseFloat(value): the longest prefix sign? digits* (. digits*)? with at
\* least one digit, as the exact decimal (-1)^neg * num / 10^scale; NaN when
\* there is no such prefix.  (Exponent notation is not among the inputs.)
parseFloat(value) ==
  LET neg   == Len(value) >= 1 /\ value[1] = "-"
      start == IF Len(value) >= 1 /\ value[1] \in {"-", "+"} THEN 2 ELSE 1
      nInt  == DigitRun(value, start)
      dot   == start + nInt
      hasDot == dot <= Len(value) /\ value[dot] = "."
      nFrac == IF hasDot THEN DigitRun(value, dot + 1) ELSE 0
      int   == DecNum(value, start, start + nInt - 1, 0)
  IN  IF nInt + nFrac = 0
        THEN NaN
        ELSE [nan |-> FALSE, neg |-> neg,
              num |-> DecNum(value, dot + 1, dot + nFrac, int),
              scale |-> nFrac]

\* variant of validateAmount: >= instead of >
validateAmount_nonNegative(value) ==
  LET f == parseFloat(value) IN ~f.nan /\ ~f.neg /\ f.num >= 0

\* !isNaN(floatValue) && floatValue > 0
validateAmount(value) ==
  LET f == parseFloat(value) IN ~f.nan /\ ~f.neg /\ f.num > 0

\* variant of Lamports: the fraction of a lamport is cut off (Math.floor)
Lamports_truncate(value) ==
  LET f == parseFloat(value)
  IN  IF f.scale <= LAMPORTS_EXP
        THEN f.num * Pow(10, LAMPORTS_EXP - f.scale)
        ELSE f.num \div Pow(10, f.scale - LAMPORTS_EXP)

\* Math.round(parseFloat(amount) * 1e9) for a non-negative amount: the
\* nearest integer of num * 10^9 / 10^scale, halves rounded up
Lamports(value) ==
  LET f == parseFloat(value)
  IN  IF f.scale <= LAMPORTS_EXP
        THEN f.num * Pow(10, LAMPORTS_EXP - f.scale)
        ELSE LET d == Pow(10, f.scale - LAMPORTS_EXP)
             IN  (f.num + d \div 2) \div d

validateAddress(address) == PublicKeyOK(address)

\* s.includes(p) on fragment sequences
Includes(s, p) == \E i \in 1..Len(s) : s[i] = p

\* ------------------------------------------------------------------ inputs
SystemProgramAddress == Ones(32)
NotAnAddress ==
  <<"n", "o", "t", "-", "a", "n", "-", "a", "d", "d", "r", "e", "s", "s">>
AddressInputs == {<< >>, NotAnAddress, SystemProgramAddress}

AmountInputs == {<< >>, <<"0">>, <<"0", ".", "0", "1">>}

\* account identifiers the wallet agent may return
WalletKeys == {"pkA", "pkB"}
\* transaction signatures the ledger client may return
Signatures == {"sigA", "sigB"}

\* err.message values of the wallet agent and of the ledger client
UserRejectedMsg == <<"User rejected", " the request.">>
InsufficientMsg == <<"Transaction simulation failed: ", "insufficient funds">>
ExpiredMsg == <<"Signature has expired: block height exceeded.">>
NetworkMsg == <<"Network request failed">>
ErrMessages == {UserRejectedMsg, InsufficientMsg, ExpiredMsg, NetworkMsg}
ConnectErrMessages == {UserRejectedMsg, NetworkMsg}

\* ---------------------------------------------------------- message texts
ErrNoPhantom ==
  <<"Phantom wallet not installed. Get it from https://phantom.app/">>
ErrConnectPrefix == <<"Error connecting to wallet: ">>
ErrNoWallet == <<"Please connect your wallet first.">>
ErrInvalidAddress == <<"Invalid receiver address.">>
ErrInvalidAmount == <<"Invalid amount.">>
ErrInsufficient == <<"Insufficient funds for this transaction.">>
ErrInvalidWallet == <<"Invalid wallet address.">>
ErrRejected == <<"Transaction was rejected by the user.">>
ErrFailed == <<"Transaction Failed">>
MsgSubmitted == <<"Transaction submitted...">>
MsgSuccess(signature) == <<"Transaction Successful: ", signature>>

\* variant of errorMessage: the "User rejected" branch is missing
errorMessage_noReject(m) ==
  IF Includes(m, "insufficient funds") THEN ErrInsufficient
  ELSE IF Includes(m, "invalid address") THEN ErrInvalidWallet
  ELSE ErrFailed \o <<": ">> \o m

\* the catch block of sendTransaction: the message shown for err.message = m
errorMessage(m) ==
  IF Includes(m, "insufficient funds") THEN ErrInsufficient
  ELSE IF Includes(m, "invalid address") THEN ErrInvalidWallet
  ELSE IF Includes(m, "User rejected") THEN ErrRejected
  ELSE ErrFailed \o <<": ">> \o m

\* ------------------------------------------------------------------- state
VARIABLES
  receiverAddress,   \* useState(""): the address input
  amount,            \* useState("0.01"): the amount input
  confirmation,      \* useState(""): the success / status message
  wallet,            \* useState(null): the connected account identifier
  isLoading,         \* useState(false): the busy flag
  error,             \* useState(""): the error message
  isAddressValid,    \* useState(true)
  isAmountValid,     \* useState(true)
  phantom,           \* window?.solana?.isPhantom
  silent,            \* position of checkIfWalletIsConnected
  connects,          \* connectWallet invocations suspended at connect()
  task               \* sendTransaction invocations, one record per slot

vars == <<receiverAddress, amount, confirmation, wallet, isLoading, error,
          isAddressValid, isAmountValid, phantom, silent, connects, task>>

uiState == <<receiverAddress, amount, confirmation, wallet, isLoading, error,
             isAddressValid, isAmountValid>>

Tasks == 1..MaxTasks

\* the suspension points of sendTransaction, in program order
Stages == <<"getLatestBlockhash", "signTransaction", "sendRawTransaction",
            "confirmTransaction">>

\* a sendTransaction invocation that has not been made yet
NoTask ==
  [pc |-> "idle", calls |-> << >>, inputs |-> NULL, addrOK |-> "unchecked",
   amtOK |-> "unchecked", tx |-> NULL, signature |-> NULL,
   outcome |-> "none", failStage |-> "none", failMsg |-> << >>,
   confirmErr |-> "none"]

InFlight(t) == task[t].pc # "idle"

Init ==
  /\ receiverAddress = << >>
  /\ amount = <<"0", ".", "0", "1">>
  /\ confirmation = << >>
  /\ wallet = NULL
  /\ isLoading = FALSE
  /\ error = << >>
  /\ isAddressValid = TRUE
  /\ isAmountValid = TRUE
  /\ phantom \in BOOLEAN
  /\ silent = "start"
  /\ connects = 0
  /\ task = [t \in Tasks |-> NoTask]

\* ------------------------------------------------------------ wallet session
Mounted == silent # "start"

\* useEffect(() => checkIfWalletIsConnected(), []) up to the await
checkIfWalletIsConnected ==
  /\ silent = "start"
  /\ silent' = IF phantom THEN "pending" ELSE "done"
  /\ UNCHANGED <<uiState, phantom, connects, task>>

\* connect({onlyIfTrusted: true}) resolved with response; k = NULL stands for
\* a response without publicKey
SilentResolve(k) ==
  /\ silent = "pending"
  /\ silent' = "done"
  /\ wallet' = IF k # NULL THEN k ELSE wallet
  /\ UNCHANGED <<receiverAddress, amount, confirmation, isLoading, error,
                 isAddressValid, isAmountValid, phantom, connects, task>>

\* variant of SilentReject: the failure is shown like that of connectWallet
SilentReject_surfaces(m) ==
  /\ silent = "pending"
  /\ silent' = "done"
  /\ error' = ErrConnectPrefix \o m
  /\ UNCHANGED <<receiverAddress, amount, confirmation, wallet, isLoading,
                 isAddressValid, isAmountValid, phantom, connects, task>>

\* connect({onlyIfTrusted: true}) rejected: both branches only log
SilentReject(m) ==
  /\ silent = "pending"
  /\ silent' = "done"
  /\ UNCHANGED <<uiState, phantom, connects, task>>

\* connectWallet up to its return or its await
connectWallet ==
  /\ connects < MaxConnects
  /\ IF ~phantom
       THEN /\ error' = ErrNoPhantom
            /\ UNCHANGED <<isLoading, connects>>
       ELSE /\ isLoading' = TRUE
            /\ connects' = connects + 1
            /\ UNCHANGED error
  /\ UNCHANGED <<receiverAddress, amount, confirmation, wallet,
                 isAddressValid, isAmountValid, phantom, silent, task>>

\* connect() resolved: setWallet, setError(""), finally setIsLoading(false)
ConnectResolve(k) ==
  /\ connects > 0
  /\ connects' = connects - 1
  /\ wallet' = k
  /\ error' = << >>
  /\ isLoading' = FALSE
  /\ UNCHANGED <<receiverAddress, amount, confirmation, isAddressValid,
                 isAmountValid, phantom, silent, task>>

\* connect() rejected: setError, finally setIsLoading(false)
ConnectReject(m) ==
  /\ connects > 0
  /\ connects' = connects - 1
  /\ error' = ErrConnectPrefix \o m
  /\ isLoading' = FALSE
  /\ UNCHANGED <<receiverAddress, amount, confirmation, wallet,
                 isAddressValid, isAmountValid, phantom, silent, task>>

\* ------------------------------------------------------------------ inputs
handleAddressChange(address) ==
  /\ address # receiverAddress
  /\ receiverAddress' = address
  /\ isAddressValid' =
       IF address # << >> THEN validateAddress(address) ELSE isAddressValid
  /\ UNCHANGED <<amount, confirmation, wallet, isLoading, error,
                 isAmountValid, phantom, silent, connects, task>>

handleAmountChange(value) ==
  /\ value # amount
  /\ amount' = value
  /\ isAmountValid' =
       IF value # << >> THEN validateAmount(value) ELSE isAmountValid
  /\ UNCHANGED <<receiverAddress, confirmation, wallet, isLoading, error,
                 isAddressValid, phantom, silent, connects, task>>

\* ---------------------------------------------------------- sendTransaction
\* the slot a new invocation is recorded in: the lowest one not suspended
FreeTask == CHOOSE t \in Tasks :
              /\ ~InFlight(t)
              /\ \A u \in Tasks : ~InFlight(u) => t <= u

\* the state a sendTransaction invocation reads (its closure)
Closure ==
  [wallet |-> wallet, receiverAddress |-> receiverAddress, amount |-> amount]

\* variant of RejectNoWallet: setIsLoading(true) is placed before the guard
RejectNoWallet_busy(t) ==
  /\ error' = ErrNoWallet
  /\ isLoading' = TRUE
  /\ task' = [task EXCEPT ![t] =
                [NoTask EXCEPT !.inputs = Closure,
                               !.outcome = "NoWalletConnected"]]
  /\ UNCHANGED <<confirmation, isAddressValid, isAmountValid>>

\* if (!wallet) { setError(...); return; }
RejectNoWallet(t) ==
  /\ error' = ErrNoWallet
  /\ task' = [task EXCEPT ![t] =
                [NoTask EXCEPT !.inputs = Closure,
                               !.outcome = "NoWalletConnected"]]
  /\ UNCHANGED <<confirmation, isLoading, isAddressValid, isAmountValid>>

\* if (!validateAddress(receiverAddress)) { setError(...); return; }
RejectAddress(t) ==
  /\ isAddressValid' = FALSE
  /\ error' = ErrInvalidAddress
  /\ task' = [task EXCEPT ![t] =
                [NoTask EXCEPT !.inputs = Closure,
                               !.addrOK = "invalid",
                               !.outcome = "InvalidAddress"]]
  /\ UNCHANGED <<confirmation, isLoading, isAmountValid>>

\* validateAddress returned true; if (!validateAmount(amount)) { ...; return; }
RejectAmount(t) ==
  /\ isAddressValid' = TRUE
  /\ isAmountValid' = FALSE
  /\ error' = ErrInvalidAmount
  /\ task' = [task EXCEPT ![t] =
                [NoTask EXCEPT !.inputs = Closure,
                               !.addrOK = "valid",
                               !.amtOK = "invalid",
                               !.outcome = "InvalidAmount"]]
  /\ UNCHANGED <<confirmation, isLoading>>

\* both validators returned true: setIsLoading(true), setError(""),
\* setConfirmation(""), the transaction is built and getLatestBlockhash issued
Submit(t) ==
  /\ isAddressValid' = TRUE
  /\ isAmountValid' = TRUE
  /\ isLoading' = TRUE
  /\ error' = << >>
  /\ confirmation' = << >>
  /\ task' = [task EXCEPT ![t] =
                [NoTask EXCEPT
                   !.inputs = Closure,
                   !.addrOK = "valid",
                   !.amtOK = "valid",
                   !.tx = [fromPubkey |-> wallet,
                           toPubkey |-> receiverAddress,
                           lamports |-> Lamports(amount),
                           feePayer |-> wallet],
                   !.pc = Stages[1],
                   !.calls = <<Stages[1]>>]]

\* variant of sendTransaction: the amount is validated before the address
sendTransaction_amountFirst ==
  /\ \E t \in Tasks : ~InFlight(t)
  /\ LET t == FreeTask IN
     IF wallet = NULL THEN RejectNoWallet(t)
     ELSE IF ~validateAmount(amount)
       THEN /\ isAmountValid' = FALSE
            /\ error' = ErrInvalidAmount
            /\ task' = [task EXCEPT ![t] =
                          [NoTask EXCEPT !.inputs = Closure,
                                         !.amtOK = "invalid",
                                         !.outcome = "InvalidAmount"]]
            /\ UNCHANGED <<confirmation, isLoading, isAddressValid>>
     ELSE IF ~validateAddress(receiverAddress)
       THEN /\ isAmountValid' = TRUE
            /\ isAddressValid' = FALSE
            /\ error' = ErrInvalidAddress
            /\ task' = [task EXCEPT ![t] =
                          [NoTask EXCEPT !.inputs = Closure,
                                         !.addrOK = "invalid",
                                         !.amtOK = "valid",
                                         !.outcome = "InvalidAddress"]]
            /\ UNCHANGED <<confirmation, isLoading>>
     ELSE Submit(t)
  /\ UNCHANGED <<receiverAddress, amount, wallet, phantom, silent, connects>>

\* sendTransaction from its entry to its first return or await
sendTransaction ==
  /\ \E t \in Tasks : ~InFlight(t)
  /\ LET t == FreeTask IN
     IF wallet = NULL THEN RejectNoWallet(t)
     ELSE IF ~validateAddress(receiverAddress) THEN RejectAddress(t)
     ELSE IF ~validateAmount(amount) THEN RejectAmount(t)
     ELSE Submit(t)
  /\ UNCHANGED <<receiverAddress, amount, wallet, phantom, silent, connects>>

\* the awaited call of task t returned and the next one is issued
Proceed(t, from, to) ==
  /\ task[t].pc = from
  /\ task' = [task EXCEPT ![t].pc = to, ![t].calls = @ \o <<to>>]

\* variant of BlockhashResolve: the transaction is built after the await,
\* from the state current at that time
BlockhashResolve_rebuild(t) ==
  /\ task[t].pc = Stages[1]
  /\ task' = [task EXCEPT ![t].pc = Stages[2],
                          ![t].calls = @ \o <<Stages[2]>>,
                          ![t].tx = [fromPubkey |-> wallet,
                                     toPubkey |-> receiverAddress,
                                     lamports |-> Lamports(amount),
                                     feePayer |-> wallet]]
  /\ UNCHANGED <<uiState, phantom, silent, connects>>

\* getLatestBlockhash resolved; signTransaction(transaction) is requested
BlockhashResolve(t) ==
  /\ Proceed(t, Stages[1], Stages[2])
  /\ UNCHANGED <<uiState, phantom, silent, connects>>

\* signTransaction resolved; sendRawTransaction(signed.serialize()) is issued
SignResolve(t) ==
  /\ Proceed(t, Stages[2], Stages[3])
  /\ UNCHANGED <<uiState, phantom, silent, connects>>

\* sendRawTransaction resolved with signature; setConfirmation("Transaction
\* submitted..."); confirmTransaction is issued
SendResolve(t, signature) ==
  /\ task[t].pc = Stages[3]
  /\ task' = [task EXCEPT ![t].pc = Stages[4],
                          ![t].calls = @ \o <<Stages[4]>>,
                          ![t].signature = signature]
  /\ confirmation' = MsgSubmitted
  /\ UNCHANGED <<receiverAddress, amount, wallet, isLoading, error,
                 isAddressValid, isAmountValid, phantom, silent, connects>>

\* confirmTransaction resolved with { value: { err } }; the result is not
\* read; setConfirmation(success), finally setIsLoading(false)
ConfirmResolve(t, err) ==
  /\ task[t].pc = Stages[4]
  /\ task' = [task EXCEPT ![t].pc = "idle",
                          ![t].outcome = "Succeeded",
                          ![t].confirmErr = err]
  /\ confirmation' = MsgSuccess(task[t].signature)
  /\ isLoading' = FALSE
  /\ UNCHANGED <<receiverAddress, amount, wallet, error, isAddressValid,
                 isAmountValid, phantom, silent, connects>>

\* variant of Catch: the failed call is issued again
Catch_retry(t, stage, m) ==
  /\ task[t].pc = stage
  /\ task' = [task EXCEPT ![t].calls = @ \o <<stage>>,
                          ![t].failStage = stage,
                          ![t].failMsg = m]
  /\ error' = errorMessage(m)
  /\ UNCHANGED <<receiverAddress, amount, confirmation, wallet, isLoading,
                 isAddressValid, isAmountValid, phantom, silent, connects>>

\* variant of Catch: setIsLoading(false) is missing on the failure path
Catch_noFinally(t, stage, m) ==
  /\ task[t].pc = stage
  /\ task' = [task EXCEPT ![t].pc = "idle",
                          ![t].outcome = "Failed",
                          ![t].failStage = stage,
                          ![t].failMsg = m]
  /\ error' = errorMessage(m)
  /\ UNCHANGED <<receiverAddress, amount, confirmation, wallet, isLoading,
                 isAddressValid, isAmountValid, phantom, silent, connects>>

\* the awaited call of task t rejected with err.message = m: catch, finally
Catch(t, stage, m) ==
  /\ task[t].pc = stage
  /\ task' = [task EXCEPT ![t].pc = "idle",
                          ![t].outcome = "Failed",
                          ![t].failStage = stage,
                          ![t].failMsg = m]
  /\ error' = errorMessage(m)
  /\ isLoading' = FALSE
  /\ UNCHANGED <<receiverAddress, amount, confirmation, wallet,
                 isAddressValid, isAmountValid, phantom, silent, connects>>

BlockhashReject(t, m) == Catch(t, Stages[1], m)
SignReject(t, m) == Catch(t, Stages[2], m)
SendReject(t, m) == Catch(t, Stages[3], m)
ConfirmReject(t, m) == Catch(t, Stages[4], m)

\* ------------------------------------------------------- the rendered page
\* <Button onClick={connectWallet} disabled={isLoading}>, shown if !wallet
ConnectEnabled == wallet = NULL /\ ~isLoading
\* the inputs are rendered in the connected branch only
InputsShown == wallet # NULL
\* variant of SendEnabled: disabled={!isAddressValid || !isAmountValid}
SendEnabled_ignoresLoading ==
  wallet # NULL /\ ~(~isAddressValid \/ ~isAmountValid)
\* <Button onClick={sendTransaction} disabled={isLoading || ...}>
SendEnabled ==
  wallet # NULL /\ ~(isLoading \/ ~isAddressValid \/ ~isAmountValid)

ClickConnect == Mounted /\ ConnectEnabled /\ connectWallet
ClickSend == Mounted /\ SendEnabled /\ sendTransaction
EditAddress ==
  Mounted /\ InputsShown /\ \E a \in AddressInputs : handleAddressChange(a)
EditAmount ==
  Mounted /\ InputsShown /\ \E v \in AmountInputs : handleAmountChange(v)

\* completions of the calls pending at the wallet agent and the ledger client
SilentDone ==
  \/ \E k \in WalletKeys \cup {NULL} : SilentResolve(k)
  \/ \E m \in ConnectErrMessages : SilentReject(m)
ConnectDone ==
  \/ \E k \in WalletKeys : ConnectResolve(k)
  \/ \E m \in ConnectErrMessages : ConnectReject(m)
BlockhashDone ==
  \E t \in Tasks : \/ BlockhashResolve(t)
                   \/ \E m \in ErrMessages : BlockhashReject(t, m)
SignDone ==
  \E t \in Tasks : \/ SignResolve(t)
                   \/ \E m \in ErrMessages : SignReject(t, m)
SendDone ==
  \E t \in Tasks : \/ \E s \in Signatures : SendResolve(t, s)
                   \/ \E m \in ErrMessages : SendReject(t, m)
ConfirmDone ==
  \E t \in Tasks : \/ \E e \in {"null", "err"} : ConfirmResolve(t, e)
                   \/ \E m \in ErrMessages : ConfirmReject(t, m)

Environment ==
  \/ SilentDone
  \/ ConnectDone
  \/ BlockhashDone
  \/ SignDone
  \/ SendDone
  \/ ConfirmDone

\* the page as the user drives it
Next ==
  \/ checkIfWalletIsConnected
  \/ ClickConnect
  \/ ClickSend
  \/ EditAddress
  \/ EditAmount
  \/ Environment

Spec == Init /\ [][Next]_vars

\* every pending call of the wallet agent and of the ledger client settles
\* and its continuation runs
SpecLive ==
  /\ Spec
  /\ WF_vars(SilentDone)
  /\ WF_vars(ConnectDone)
  /\ WF_vars(BlockhashDone)
  /\ WF_vars(SignDone)
  /\ WF_vars(SendDone)
  /\ WF_vars(ConfirmDone)

\* sendTransaction invoked directly, whatever the page shows, one invocation
\* at a time
CallSend ==
  /\ Mounted
  /\ \A t \in Tasks : ~InFlight(t)
  /\ sendTransaction

NextCall ==
  \/ checkIfWalletIsConnected
  \/ ClickConnect
  \/ CallSend
  \/ EditAddress
  \/ EditAmount
  \/ Environment

SpecCall == Init /\ [][NextCall]_vars

TypeOK ==
  /\ receiverAddress \in AddressInputs
  /\ \A i \in 1..Len(amount) : amount[i] \in Digits \cup {".", "-", "+", "a"}
  /\ wallet \in WalletKeys \cup {NULL}
  /\ isLoading \in BOOLEAN
  /\ isAddressValid \in BOOLEAN
  /\ isAmountValid \in BOOLEAN
  /\ silent \in {"start", "pending", "done"}
  /\ connects \in 0..MaxConnects
  /\ \A t \in Tasks : task[t].pc \in {"idle"} \cup {Stages[i] : i \in 1..4}

\* =================================================================== claims
\* what the validators decide, stated on the decoded inputs
AddressAccepted(a) == B58DecodedLen(a) = 32
AmountAccepted(v) ==
  LET f == parseFloat(v) IN ~f.nan /\ ~f.neg /\ f.num # 0

IsPrefix(s, q) == Len(s) <= Len(q) /\ \A i \in 1..Len(s) : s[i] = q[i]
Called(t, call) == \E i \in 1..Len(task[t].calls) : task[t].calls[i] = call

\* C1: a sendTransaction invocation made while wallet is null sets the
\* NoWalletConnected message, issues no getLatestBlockhash, signTransaction,
\* sendRawTransaction or confirmTransaction call, and leaves the busy flag,
\* the confirmation message, both validity flags, both inputs and the wallet
\* unchanged.
C1_NoWalletConnected ==
  [][(sendTransaction /\ wallet = NULL) =>
       /\ error' = ErrNoWallet
       /\ UNCHANGED <<isLoading, confirmation, isAddressValid, isAmountValid,
                      receiverAddress, amount, wallet>>
       /\ task'[FreeTask].outcome = "NoWalletConnected"
       /\ task'[FreeTask].calls = << >>
       /\ \A t \in Tasks : ~InFlight(t)'
       /\ \A t \in Tasks \ {FreeTask} : task'[t] = task[t]]_vars

C1_Witness ==
  /\ wallet = NULL
  /\ error = ErrNoWallet
  /\ \E t \in Tasks : task[t].outcome = "NoWalletConnected"

\* C2: a submission has issued an external call only if its address input
\* decodes to a public key and its amount input parses to a positive number;
\* a submission that ended with InvalidAddress or InvalidAmount issued none.
C2_CallsOnlyAfterValidation ==
  \A t \in Tasks :
    /\ task[t].calls # << >> =>
         /\ AddressAccepted(task[t].inputs.receiverAddress)
         /\ AmountAccepted(task[t].inputs.amount)
    /\ task[t].outcome \in {"InvalidAddress", "InvalidAmount"} =>
         task[t].calls = << >> /\ ~InFlight(t)

C2_Witness ==
  \E t \in Tasks :
    /\ task[t].outcome = "InvalidAmount"
    /\ ~AmountAccepted(task[t].inputs.amount)
    /\ task[t].calls = << >>

\* C3: a sendTransaction invocation with a connected wallet and an invalid
\* address fails with InvalidAddress and leaves the amount validity flag as
\* it was, whatever the amount; with a valid address and an invalid amount
\* it fails with InvalidAmount.
C3_AddressBeforeAmount ==
  [][(sendTransaction /\ wallet # NULL) =>
       /\ ~AddressAccepted(receiverAddress) =>
            /\ error' = ErrInvalidAddress
            /\ isAmountValid' = isAmountValid
            /\ task'[FreeTask].outcome = "InvalidAddress"
            /\ task'[FreeTask].amtOK = "unchecked"
       /\ (AddressAccepted(receiverAddress) /\ ~AmountAccepted(amount)) =>
            /\ error' = ErrInvalidAmount
            /\ task'[FreeTask].outcome = "InvalidAmount"]_vars

C3_Witness ==
  \E t \in Tasks :
    /\ task[t].outcome = "InvalidAddress"
    /\ ~AmountAccepted(task[t].inputs.amount)
    /\ error = ErrInvalidAddress
    /\ isAmountValid

\* C4: the external calls of one submission are a prefix of getLatestBlockhash,
\* signTransaction, sendRawTransaction, confirmTransaction; the pending call
\* is the last one issued; a failed submission has issued nothing after the
\* call that failed.
C4_CallsArePrefix ==
  \A t \in Tasks :
    /\ IsPrefix(task[t].calls, Stages)
    /\ InFlight(t) => task[t].pc = task[t].calls[Len(task[t].calls)]
    /\ task[t].outcome = "Failed" =>
         /\ ~InFlight(t)
         /\ task[t].failStage = task[t].calls[Len(task[t].calls)]

C4_Witness ==
  \E t \in Tasks :
    /\ task[t].outcome = "Failed"
    /\ task[t].failStage = Stages[3]
    /\ task[t].calls = SubSeq(Stages, 1, 3)

\* C5: when signTransaction rejects with the user-decline message the
\* submission ends Failed showing the SignatureRejected message, having called
\* neither sendRawTransaction nor confirmTransaction.
C5_SignatureRejected ==
  [][\A t \in Tasks :
       (/\ task[t].pc = Stages[2]
        /\ ~InFlight(t)'
        /\ task'[t].failMsg = UserRejectedMsg) =>
         /\ error' = ErrRejected
         /\ task'[t].outcome = "Failed"
         /\ task'[t].calls = SubSeq(Stages, 1, 2)]_vars

C5_Witness ==
  \E t \in Tasks :
    /\ task[t].outcome = "Failed"
    /\ task[t].failStage = Stages[2]
    /\ task[t].failMsg = UserRejectedMsg
    /\ error = ErrRejected
    /\ ~Called(t, Stages[3])
    /\ ~Called(t, Stages[4])

\* the error kind a displayed error text stands for; the catch-all text of
\* sendTransaction ("Transaction Failed: " + err.message) names no stage
ErrorKind(e) ==
  IF e = << >> THEN "none"
  ELSE IF e = ErrNoPhantom THEN "WalletUnavailable"
  ELSE IF e[1] = ErrConnectPrefix[1] THEN "ConnectionError"
  ELSE IF e = ErrNoWallet THEN "NoWalletConnected"
  ELSE IF e = ErrInvalidAddress THEN "InvalidAddress"
  ELSE IF e = ErrInvalidAmount THEN "InvalidAmount"
  ELSE IF e = ErrInsufficient THEN "InsufficientFunds"
  ELSE IF e = ErrInvalidWallet THEN "InvalidAddress"
  ELSE IF e = ErrRejected THEN "SignatureRejected"
  ELSE "TransactionFailed"

\* C6: a submission whose confirmTransaction call timed out past
\* lastValidBlockHeight has ended Failed, the error shown is of the kind
\* ConfirmationExpired, and the success message is not shown.
C6_ConfirmationExpired ==
  \A t \in Tasks :
    (/\ task[t].failStage = Stages[4]
     /\ task[t].failMsg = ExpiredMsg) =>
      /\ task[t].outcome = "Failed"
      /\ ErrorKind(error) = "ConfirmationExpired"
      /\ confirmation # MsgSuccess(task[t].signature)

\* C7: the success message of a submission is shown only if its
\* confirmTransaction call reported success: not when the call rejected and
\* not when it resolved with a transaction error in its result.
C7_SuccessOnlyIfConfirmed ==
  \A t \in Tasks :
    (/\ task[t].signature # NULL
     /\ confirmation = MsgSuccess(task[t].signature)) =>
      /\ task[t].outcome = "Succeeded"
      /\ task[t].confirmErr = "null"

\* C8: the error message and the confirmation message are never both
\* non-empty.
C8_OneMessage == ~(error # << >> /\ confirmation # << >>)

\* C9: at most one submission is suspended at an external call, and while
\* one is, the busy flag is true (which disables the submit button).
C9_SingleSubmission ==
  /\ Cardinality({t \in Tasks : InFlight(t)}) <= 1
  /\ (\E t \in Tasks : InFlight(t)) => isLoading

C9_Witness ==
  \E t \in Tasks :
    /\ task[t].pc = Stages[2]
    /\ isLoading
    /\ receiverAddress # task[t].inputs.receiverAddress
    /\ silent = "pending"

\* requests outstanding at the wallet agent: the silent connect, the explicit
\* connects and the sign requests
AgentRequests ==
  (IF silent = "pending" THEN 1 ELSE 0) + connects
    + Cardinality({t \in Tasks : task[t].pc = Stages[2]})

\* C10: at most one connect or sign request is outstanding at the wallet
\* agent.
C10_OneAgentRequest == AgentRequests <= 1

\* C11: with a connected wallet the submit button is enabled only if the
\* current address input decodes to a public key and the current amount input
\* parses to a positive number.
C11_SubmitOnlyIfValid ==
  (wallet # NULL /\ ~isLoading /\ isAddressValid /\ isAmountValid) =>
    /\ AddressAccepted(receiverAddress)
    /\ AmountAccepted(amount)

\* C12: after every change of the address input the address validity flag is
\* the validator's verdict on the new value, and likewise for the amount
\* input, the empty string included.
C12_RevalidateOnChange ==
  [][/\ receiverAddress' # receiverAddress =>
          isAddressValid' = AddressAccepted(receiverAddress')
     /\ amount' # amount =>
          isAmountValid' = AmountAccepted(amount')]_vars

\* a submission has ended Failed or Succeeded and none is suspended
Terminal ==
  /\ \A t \in Tasks : ~InFlight(t)
  /\ \E t \in Tasks : task[t].outcome \in {"Failed", "Succeeded"}

\* C13: once a submission has ended Failed or Succeeded, an edit of the
\* address or of the amount input clears the error message and the
\* confirmation message and keeps the wallet.
C13_EditClearsMessages ==
  [][(Terminal /\ (receiverAddress' # receiverAddress \/ amount' # amount)) =>
       /\ error' = << >>
       /\ confirmation' = << >>
       /\ wallet' = wallet]_vars

\* the generic error kind of the stage a call belongs to
StageKind(stage) ==
  CASE stage = Stages[1] -> "BuildError"
    [] stage = Stages[2] -> "SigningError"
    [] stage = Stages[3] -> "BroadcastError"
    [] stage = Stages[4] -> "ConfirmationError"

\* the raw message m is appended to the displayed error text e
EndsWith(e, m) ==
  /\ Len(e) >= Len(m)
  /\ Len(m) > 0
  /\ SubSeq(e, Len(e) - Len(m) + 1, Len(e)) = m

\* C14: the error shown when a submission failed at signing, broadcast or
\* confirmation is InsufficientFunds for a message that indicates
\* insufficient balance, SignatureRejected for a user decline, and otherwise
\* the generic kind of the stage that failed, with the raw message appended.
C14_ClassifiedByStage ==
  \A t \in Tasks :
    (/\ task[t].outcome = "Failed"
     /\ task[t].failStage \in {Stages[2], Stages[3], Stages[4]}) =>
      IF Includes(task[t].failMsg, "insufficient funds")
        THEN ErrorKind(error) = "InsufficientFunds"
      ELSE IF Includes(task[t].failMsg, "User rejected")
        THEN ErrorKind(error) = "SignatureRejected"
      ELSE /\ ErrorKind(error) = StageKind(task[t].failStage)
           /\ EndsWith(error, task[t].failMsg)

\* C15: the interim "submitted" status is shown only while the submission is
\* suspended at confirmTransaction with the busy flag true; when that call
\* completes it is replaced by the terminal outcome.
C15_SubmittedIsInterim ==
  confirmation = MsgSubmitted =>
    /\ isLoading
    /\ \E t \in Tasks : task[t].pc = Stages[4]

\* ------------------------------------------------- the amount conversion
RECURSIVE Zeros(_)
Zeros(n) == IF n = 0 THEN << >> ELSE <<"0">> \o Zeros(n - 1)

\* the last one or two fractional digits of the amounts tried
FracTails ==
  {<<d>> \o tail : d \in {"1", "4", "5", "6", "9"},
                   tail \in {<< >>, <<"4">>, <<"5">>}}

\* amounts below 1 SOL, down to fractions of a lamport
SmallAmounts ==
  {<<"0", ".">> \o Zeros(k) \o f : k \in 0..MaxZeros, f \in FracTails}

\* amounts of 1 SOL and more with at most 9 fractional digits
WholeAmounts ==
  {<<"1">>, <<"2">>}
    \cup {<<"1", ".">> \o Zeros(k) \o <<d>> : k \in 0..8, d \in {"1", "5"}}

\* values the validator rejects, or accepts by their numeric prefix
OddAmounts ==
  {<< >>, <<"0">>, <<"0", ".", "0">>, <<"-", "1">>, <<"a">>, <<"1", "a">>,
   <<".", "5">>, <<"+", "1">>}

AmountDomain == SmallAmounts \cup WholeAmounts \cup OddAmounts

\* the page with a connected wallet, the system program address entered and
\* any amount of AmountDomain typed in (handleAmountChange has set the flag)
InitAmount ==
  /\ receiverAddress = SystemProgramAddress
  /\ amount \in AmountDomain
  /\ confirmation = << >>
  /\ wallet \in WalletKeys
  /\ isLoading = FALSE
  /\ error = << >>
  /\ isAddressValid = TRUE
  /\ isAmountValid = (amount = << >> \/ validateAmount(amount))
  /\ phantom = TRUE
  /\ silent = "done"
  /\ connects = 0
  /\ task = [t \in Tasks |-> NoTask]

NextAmount ==
  \/ ClickSend
  \/ BlockhashDone
  \/ SignDone
  \/ SendDone
  \/ ConfirmDone

SpecAmount == InitAmount /\ [][NextAmount]_vars

\* l is a nearest integer of (the decimal value of v) * 10^9
Nearest(l, v) ==
  LET f == parseFloat(v)
  IN  IF f.scale <= 9
        THEN l = f.num * Pow(10, 9 - f.scale)
        ELSE LET d == Pow(10, f.scale - 9)
             IN  /\ l >= 0
                 /\ 2 * (f.num - l * d) <= d
                 /\ 2 * (l * d - f.num) <= d

C19_PositiveLamports ==
  \A t \in Tasks :
    Called(t, Stages[2]) => task[t].tx.lamports > 0

\* C17: the step that ends the silent connect leaves the error message, the
\* confirmation message and the busy flag as they were; it sets the wallet
\* only to an account identifier returned by an installed agent.
C17_SilentConnectQuiet ==
  [][silent' # silent =>
       /\ UNCHANGED <<error, confirmation, isLoading>>
       /\ \/ wallet' = wallet
          \/ silent = "pending" /\ phantom /\ wallet' \in WalletKeys]_vars

C17_Witness ==
  /\ phantom
  /\ silent = "done"
  /\ wallet = NULL
  /\ isLoading
  /\ connects = 1
  /\ error = << >>

\* C18: whenever the busy flag is set it is reset later, given that every
\* pending wallet or ledger call returns or fails.
C18_BusyReleased == isLoading ~> ~isLoading

C18_Witness ==
  /\ ~isLoading
  /\ connects = 0
  /\ \E t \in Tasks : task[t].outcome = "Failed" /\ task[t].failStage = Stages[1]

\* C20: the transaction of a suspended submission has the recipient, amount
\* and sender read at its trigger, and no step changes it while the
\* submission is suspended.
C20_TransactionFixed ==
  [][\A t \in Tasks : InFlight(t)' =>
       /\ task'[t].tx.toPubkey = task'[t].inputs.receiverAddress
       /\ task'[t].tx.fromPubkey = task'[t].inputs.wallet
       /\ task'[t].tx.feePayer = task'[t].inputs.wallet
       /\ Nearest(task'[t].tx.lamports, task'[t].inputs.amount)
       /\ InFlight(t) =>
            /\ task'[t].tx = task[t].tx
            /\ task'[t].inputs = task[t].inputs]_vars

C20_Witness ==
  \E t \in Tasks :
    /\ task[t].pc = Stages[3]
    /\ receiverAddress # task[t].tx.toPubkey
    /\ amount # task[t].inputs.amount
    /\ wallet # task[t].tx.fromPubkey

====
